---- MODULE Spec2Model ----
(***************************************************************************)
(* State-machine model of the Cartesi machine-emulator HTIF device         *)
(* (src/src/htif.cpp) and of the break-flag bookkeeping of the machine     *)
(* state (src/src/machine-state.h).                                        *)
(*                                                                         *)
(* 64-bit words are tuples of four 16-bit limbs, most significant limb     *)
(* first: <<bits 63..48, bits 47..32, bits 31..16, bits 15..0>>.           *)
(***************************************************************************)
EXTENDS Integers, Sequences, FiniteSets, TLC

----------------------------------------------------------------------------
(* Bounds of the model *)

\* sizeof(m_buf): capacity of the console input buffer
BufSize == 2

\* reads of stdin followed in the specification of the console input
MaxReads == 2

\* capacity of the vector of ranges in the model
PMA_MAX == 3

\* log2 of the size of the address space the tree of the model covers, and
\* of the size of a page of that tree
LOG2_ROOT_SIZE == 6

LOG2_PAGE_SIZE == 4

\* number of interact() calls per console poll
HTIF_INTERACT_DIVISOR == 2

----------------------------------------------------------------------------
(* 64-bit word arithmetic *)

\* bitwise and/or of two n-bit numbers, bit by bit from the least
\* significant one; the recursion stops once an operand has no bits left
RECURSIVE And16(_, _, _)
And16(a, b, n) ==
    IF n = 0 \/ a = 0 \/ b = 0 THEN 0
    ELSE ((a % 2) * (b % 2)) + 2 * And16(a \div 2, b \div 2, n - 1)

RECURSIVE Or16(_, _, _)
Or16(a, b, n) ==
    IF n = 0 THEN 0
    ELSE IF a = 0 THEN b
    ELSE IF b = 0 THEN a
    ELSE (IF (a % 2) + (b % 2) > 0 THEN 1 ELSE 0)
         + 2 * Or16(a \div 2, b \div 2, n - 1)

And64(x, y) == [i \in 1..4 |-> And16(x[i], y[i], 16)]
Or64(x, y) == [i \in 1..4 |-> Or16(x[i], y[i], 16)]

\* bitwise complement of a 64-bit word
Not64(a) == [i \in 1..4 |-> 65536 - 1 - a[i]]

\* a 64-bit word shifted right by 16 bits
Shr16(a) == <<0, a[1], a[2], a[3]>>

\* a <= b and a < b on 64-bit words
Le64(a, b) ==
    \/ a = b
    \/ \E i \in 1..4 : a[i] < b[i] /\ \A j \in 1..(i - 1) : a[j] = b[j]

Lt64(a, b) == a # b /\ Le64(a, b)

\* a + n modulo 2^64, for 0 <= n < 2^16
AddSmall64(a, n) ==
    LET l4 == a[4] + n
        l3 == a[3] + l4 \div 65536
        l2 == a[2] + l3 \div 65536
        l1 == a[1] + l2 \div 65536
    IN <<l1 % 65536, l2 % 65536, l3 % 65536, l4 % 65536>>

\* a * m held at 2^64 - 1 when it does not fit
MulSmall64_saturating(a, m) ==
    LET l4 == a[4] * m
        l3 == a[3] * m + l4 \div 65536
        l2 == a[2] * m + l3 \div 65536
        l1 == a[1] * m + l2 \div 65536
    IN IF l1 >= 65536 THEN <<65535, 65535, 65535, 65535>>
       ELSE <<l1, l2 % 65536, l3 % 65536, l4 % 65536>>

\* a * m modulo 2^64, for 0 <= m < 2^15
MulSmall64(a, m) ==
    LET l4 == a[4] * m
        l3 == a[3] * m + l4 \div 65536
        l2 == a[2] * m + l3 \div 65536
        l1 == a[1] * m + l2 \div 65536
    IN <<l1 % 65536, l2 % 65536, l3 % 65536, l4 % 65536>>

\* the quotient of a by d, for 0 < d < 2^15
DivSmall64(a, d) ==
    LET c1 == a[1]
        c2 == (c1 % d) * 65536 + a[2]
        c3 == (c2 % d) * 65536 + a[3]
        c4 == (c3 % d) * 65536 + a[4]
    IN <<c1 \div d, c2 \div d, c3 \div d, c4 \div d>>

Zero64 == <<0, 0, 0, 0>>

\* (uint64_t) b for a value b below 2^16
U64(b) == <<0, 0, 0, b>>

\* (uint64_t) b << 48 and (uint64_t) b << 56 for a byte b
Shl48(b) == <<b, 0, 0, 0>>
Shl56(b) == <<(b * 256) % 65536, 0, 0, 0>>

\* conversion of a uint64_t to bool
ToBool(x) == \E i \in 1..4 : x[i] # 0

----------------------------------------------------------------------------
(* Input domains *)

\* bytes the host's stdin can supply
Bytes == {0, 255}

CTRL_D == 4

\* values the guest writes to tohost
\*   halt requests: device 0, cmd 0, payload bit 0 set
\*   putchar: device 1, cmd 1; getchar: device 1, cmd 0
\*   everything else is not a recognized command
TohostVals ==
    { Zero64,
      <<0, 4660, 0, 3>>,
      <<0, 0, 0, 2>>,
      <<257, 0, 0, 65>>, <<257, 0, 1, 511>>,
      <<256, 0, 0, 7>>,
      <<512, 0, 0, 1>>, <<1, 0, 0, 1>> }

\* values the guest writes to fromhost
FromhostVals == { Zero64, <<0, 0, 0, 5>> }

\* device accesses (offset, log2 of the width, value): the aligned 64-bit
\* accesses to tohost and fromhost, and accesses that are narrower,
\* misaligned or off the two registers
Req(offset, size_log2, val) ==
    [offset |-> offset, size_log2 |-> size_log2, val |-> val]

WriteReqs ==
    {Req(0, 3, v) : v \in TohostVals}
    \cup {Req(8, 3, v) : v \in FromhostVals}
    \cup {Req(0, 2, <<0, 0, 0, 1>>), Req(4, 3, <<257, 0, 0, 65>>),
          Req(16, 3, <<0, 0, 0, 1>>)}

ReadReqs ==
    {Req(0, 3, Zero64), Req(8, 3, Zero64), Req(8, 2, Zero64),
     Req(4, 3, Zero64), Req(16, 3, Zero64)}

\* values written to mip and mie
IntVals == { Zero64, <<0, 0, 0, 2048>>, <<32768, 0, 0, 0>> }

BufIdx == 0 .. (BufSize - 1)

\* what one poll of stdin can observe: select() reports stdin readable or
\* not, and read() returns n (<= 0 at end of input or on error) with n bytes;
\* wr is what a write() of one byte to stdout returns during the call
RECURSIVE SeqsUpTo(_, _)
SeqsUpTo(S, n) ==
    IF n = 0 THEN {<<>>}
    ELSE LET R == SeqsUpTo(S, n - 1)
         IN R \cup {Append(q, b) : q \in {r \in R : Len(r) = n - 1}, b \in S}

StdinObs ==
    {[ready |-> FALSE, n |-> 0, data |-> <<>>, wr |-> 1]}
    \cup {[ready |-> TRUE, n |-> k, data |-> <<>>, wr |-> 1] : k \in {-1, 0}}
    \cup {[ready |-> TRUE, n |-> Len(d), data |-> d, wr |-> 1] :
             d \in SeqsUpTo(Bytes, BufSize) \ {<<>>}}

----------------------------------------------------------------------------
(* State *)

VARIABLES
    tohost,               \* machine_state::htif.tohost
    fromhost,             \* machine_state::htif.fromhost
    iflags,               \* machine_state::iflags (PRV, I, H)
    mip,                  \* machine_state::mip
    mie,                  \* machine_state::mie
    brk,                  \* machine_state::brk
    m_interactive,        \* htif::m_interactive
    m_fromhost_pending,   \* htif::m_fromhost_pending
    m_buf,                \* htif::m_buf
    m_buf_pos,            \* htif::m_buf_pos
    m_buf_len,            \* htif::m_buf_len
    m_divisor_counter,    \* htif::m_divisor_counter
    getchar_req,          \* history: a getchar command is outstanding
    acc,                  \* accesses made by the last call, in order
    last,                 \* the last call and its return value
    gap,                  \* history: interact() calls since the last poll
    res,                  \* what the last call outside the handlers gave
    tlb,                  \* machine_state::tlb_read, tlb_write, tlb_code
    mcycle,               \* machine_state::mcycle
    mtimecmp,             \* machine_state::clint.mtimecmp
    pmas,                 \* machine_state::pmas
    tty,                  \* htif::m_ttyfd, htif::m_oldtty and the terminal
    mem,                  \* the words of the memory ranges, by address
    dirty,                \* the dirty-page bitmap, as the set of dirty pages
    tree,                 \* machine::m_t, the hashes of the Merkle tree
    reads,                \* history: what each read() of stdin gave
    delivered             \* history: the bytes poll_console put in fromhost

vars == <<tohost, fromhost, iflags, mip, mie, brk, m_interactive,
          m_fromhost_pending, m_buf, m_buf_pos, m_buf_len,
          m_divisor_counter, getchar_req, acc, last, gap, res, tlb,
          mcycle, mtimecmp, pmas, tty, mem, dirty, tree, reads, delivered>>

\* the variables of the HTIF, of the processor flags and of the call record
htifvars == <<tohost, fromhost, iflags, mip, mie, brk, m_interactive,
              m_fromhost_pending, m_buf, m_buf_pos, m_buf_len,
              m_divisor_counter, getchar_req, acc, last, reads, delivered>>

\* the variables outside the device and the processor flags; each is
\* maintained by the specification that is about it and kept by the others
rest == <<gap, res, tlb, mcycle, mtimecmp, pmas, tty, mem, dirty, tree,
          reads, delivered>>

\* those of them that no specification of the HTIF or of the TLBs maintains
others == <<mcycle, mtimecmp, pmas, tty, mem, dirty, tree, reads, delivered>>

\* the memory and its Merkle tree
merklevars == <<mem, dirty, tree>>

\* the state as one record, with an empty access trace
St ==
    [tohost |-> tohost, fromhost |-> fromhost, iflags |-> iflags,
     mip |-> mip, mie |-> mie, brk |-> brk,
     m_interactive |-> m_interactive,
     m_fromhost_pending |-> m_fromhost_pending,
     m_buf |-> m_buf, m_buf_pos |-> m_buf_pos, m_buf_len |-> m_buf_len,
     m_divisor_counter |-> m_divisor_counter,
     getchar_req |-> getchar_req, acc |-> <<>>]

Commit(s) ==
    /\ tohost' = s.tohost
    /\ fromhost' = s.fromhost
    /\ iflags' = s.iflags
    /\ mip' = s.mip
    /\ mie' = s.mie
    /\ brk' = s.brk
    /\ m_interactive' = s.m_interactive
    /\ m_fromhost_pending' = s.m_fromhost_pending
    /\ m_buf' = s.m_buf
    /\ m_buf_pos' = s.m_buf_pos
    /\ m_buf_len' = s.m_buf_len
    /\ m_divisor_counter' = s.m_divisor_counter
    /\ getchar_req' = s.getchar_req
    /\ acc' = s.acc

\* a call record: the operation, its arguments, its return value and, for a
\* device read, whether *pval was assigned and to what
Call(op, offset, val, size_log2, ret, set, pval) ==
    [op |-> op, offset |-> offset, val |-> val, size_log2 |-> size_log2,
     ret |-> ret, set |-> set, pval |-> pval]

Access(what, val) == [what |-> what, val |-> val]

----------------------------------------------------------------------------
(* machine state: src/src/machine-state.h and the machine's accessors *)

\* brk taken from the low byte of mip & mie
set_brk_from_mip_mie_low_byte(s) ==
    [s EXCEPT !.brk = (And64(s.mip, s.mie)[4] % 256) # 0]

\* brk = mip & mie
set_brk_from_mip_mie(s) ==
    [s EXCEPT !.brk = ToBool(And64(s.mip, s.mie))]

\* brk = iflags.H
set_brk_from_iflags_H(s) ==
    [s EXCEPT !.brk = s.iflags.H]

write_htif_tohost(s, val) ==
    [s EXCEPT !.tohost = val, !.acc = Append(@, Access("tohost", val))]

write_htif_fromhost(s, val) ==
    [s EXCEPT !.fromhost = val, !.acc = Append(@, Access("fromhost", val))]

read_htif_tohost(s) == s.tohost

read_htif_fromhost(s) == s.fromhost

\* sets the H flag and refreshes brk from it
set_iflags_H(s) ==
    set_brk_from_iflags_H(
        [s EXCEPT !.iflags.H = TRUE,
                  !.acc = Append(@, Access("iflags.H", U64(1)))])

\* stores mip and refreshes brk
write_mip(s, val) == set_brk_from_mip_mie([s EXCEPT !.mip = val])

\* stores mie and refreshes brk
write_mie(s, val) == set_brk_from_mip_mie([s EXCEPT !.mie = val])

----------------------------------------------------------------------------
(* HTIF device: src/src/htif.cpp *)

HTIF_TOHOST_REL_ADDR == 0
HTIF_FROMHOST_REL_ADDR == 8

reset_fromhost_pending(s) == [s EXCEPT !.m_fromhost_pending = FALSE]

is_interactive(s) == s.m_interactive

\* an element of m_buf converted to uint64_t
BufElemToU64(b) == U64(b)

\* the input byte tagged with cmd 1, as the putchar acknowledgement is
PollFromhostValue_cmd1(b) == Or64(Or64(Shl56(1), Shl48(1)), BufElemToU64(b))

\* ((uint64_t)1 << 56) | ((uint64_t)0 << 48) | m_buf[m_buf_pos]
PollFromhostValue(b) == Or64(Or64(Shl56(1), Shl48(0)), BufElemToU64(b))

\* a refill that stores the result of read() as it is
PollRefill_no_eof(s, obs) ==
    IF obs.ready
    THEN [s EXCEPT !.m_buf_pos = 0, !.m_buf_len = obs.n,
                   !.m_buf = [i \in BufIdx |->
                                 IF i < obs.n THEN obs.data[i + 1]
                                 ELSE s.m_buf[i]],
                   !.acc = Append(@, Access("stdin", U64(Len(obs.data))))]
    ELSE s

\* the select()/read() part of poll_console: refill the exhausted buffer
PollRefill(s, obs) ==
    IF obs.ready
    THEN LET len == obs.n
             got == [i \in BufIdx |->
                        IF i < len THEN obs.data[i + 1] ELSE s.m_buf[i]]
             rd == [s EXCEPT !.m_buf_pos = 0, !.m_buf_len = len,
                             !.m_buf = got,
                             !.acc = Append(@, Access("stdin",
                                                      U64(Len(obs.data))))]
         IN IF len <= 0
            THEN [rd EXCEPT !.m_buf_len = 1,
                            !.m_buf = [got EXCEPT ![0] = CTRL_D]]
            ELSE rd
    ELSE s

\* the delivery part of poll_console
PollDeliver(s) ==
    IF s.m_buf_pos < s.m_buf_len
    THEN [write_htif_fromhost(s, PollFromhostValue(s.m_buf[s.m_buf_pos]))
             EXCEPT !.m_buf_pos = s.m_buf_pos + 1,
                    !.m_fromhost_pending = TRUE,
                    !.getchar_req = FALSE]
    ELSE s

\* a poll that ignores m_fromhost_pending
PollGuard_always(s) == TRUE

PollGuard(s) == ~s.m_fromhost_pending

\* a poll that refills the buffer while its last byte is still unread
poll_console_refills_early(s, obs) ==
    LET s0 == [s EXCEPT !.acc = Append(@, Access("poll_console", Zero64))]
    IN IF PollGuard(s0)
       THEN PollDeliver(IF s0.m_buf_pos + 1 >= s0.m_buf_len
                        THEN PollRefill(s0, obs) ELSE s0)
       ELSE s0

\* every invocation leaves a "poll_console" entry in the access trace
poll_console(s, obs) ==
    LET s0 == [s EXCEPT !.acc = Append(@, Access("poll_console", Zero64))]
    IN IF PollGuard(s0)
       THEN PollDeliver(IF s0.m_buf_pos >= s0.m_buf_len
                        THEN PollRefill(s0, obs) ELSE s0)
       ELSE s0

\* a test that lets the counter pass the divisor by one
DivisorReached_late(c) == c > HTIF_INTERACT_DIVISOR

\* ++m_divisor_counter >= HTIF_INTERACT_DIVISOR
DivisorReached(c) == c >= HTIF_INTERACT_DIVISOR

\* interact() that polls whether or not the HTIF is interactive
interact_always(s, obs) ==
    LET c == s.m_divisor_counter + 1
    IN IF DivisorReached(c)
       THEN poll_console([s EXCEPT !.m_divisor_counter = 0], obs)
       ELSE [s EXCEPT !.m_divisor_counter = c]

interact(s, obs) ==
    IF s.m_interactive
    THEN LET c == s.m_divisor_counter + 1
         IN IF DivisorReached(c)
            THEN poll_console([s EXCEPT !.m_divisor_counter = 0], obs)
            ELSE [s EXCEPT !.m_divisor_counter = c]
    ELSE s

\* a read callback that answers at every aligned offset
htif_read_any_offset(s, offset, size_log2) ==
    IF size_log2 # 3 \/ offset % 8 # 0
    THEN [ret |-> FALSE, set |-> FALSE, val |-> Zero64]
    ELSE CASE offset = HTIF_TOHOST_REL_ADDR ->
                [ret |-> TRUE, set |-> TRUE, val |-> read_htif_tohost(s)]
           [] offset = HTIF_FROMHOST_REL_ADDR ->
                [ret |-> TRUE, set |-> TRUE, val |-> read_htif_fromhost(s)]
           [] OTHER ->
                [ret |-> TRUE, set |-> TRUE, val |-> Zero64]

htif_read(s, offset, size_log2) ==
    IF size_log2 # 3 \/ offset % 8 # 0
    THEN [ret |-> FALSE, set |-> FALSE, val |-> Zero64]
    ELSE CASE offset = HTIF_TOHOST_REL_ADDR ->
                [ret |-> TRUE, set |-> TRUE, val |-> read_htif_tohost(s)]
           [] offset = HTIF_FROMHOST_REL_ADDR ->
                [ret |-> TRUE, set |-> TRUE, val |-> read_htif_fromhost(s)]
           [] OTHER ->
                [ret |-> FALSE, set |-> FALSE, val |-> Zero64]

\* getchar that also answers on fromhost at once
htif_write_getchar_answers(s, payload) ==
    [st |-> [write_htif_fromhost(write_htif_tohost(s, Zero64), Shl56(1))
                EXCEPT !.getchar_req = TRUE],
     ret |-> TRUE]

htif_write_getchar(s, payload) ==
    [st |-> [write_htif_tohost(s, Zero64) EXCEPT !.getchar_req = TRUE],
     ret |-> TRUE]

\* the payload's low limb without the 0xff mask
PutcharByte_unmasked(payload) == payload[4]

\* payload & 0xff
PutcharByte(payload) == payload[4] % 256

\* ((uint64_t)1 << 56) | ((uint64_t)1 << 48)
PutcharAck == Or64(Shl56(1), Shl48(1))

\* a write of the byte that halts the machine when it fails
PutcharWrite_halts(s, ch, n) ==
    LET s1 == [s EXCEPT !.acc = Append(@, Access("stdout", U64(ch)))]
    IN IF n < 1
       THEN set_iflags_H([s1 EXCEPT
                             !.acc = Append(@, Access("stdout failed",
                                                      Zero64))])
       ELSE s1

\* if (write(STDOUT_FILENO, &ch, 1) < 1) { ; }, with n the result of
\* write(): the call is recorded in the access trace, and so is its failure
PutcharWrite(s, ch, n) ==
    LET s1 == [s EXCEPT !.acc = Append(@, Access("stdout", U64(ch)))]
    IN IF n < 1
       THEN [s1 EXCEPT !.acc = Append(@, Access("stdout failed", Zero64))]
       ELSE s1

\* putchar that acknowledges on fromhost before it emits the byte
htif_write_putchar_ack_first(s, payload, obs) ==
    LET s1 == write_htif_fromhost(write_htif_tohost(s, Zero64), PutcharAck)
        ch == PutcharByte(payload)
    IN [st |-> PutcharWrite(s1, ch, obs.wr), ret |-> TRUE]

htif_write_putchar(s, payload, obs) ==
    LET s1 == write_htif_tohost(s, Zero64)
        ch == PutcharByte(payload)
        s2 == PutcharWrite(s1, ch, obs.wr)
    IN [st |-> write_htif_fromhost(s2, PutcharAck), ret |-> TRUE]

\* halt that acknowledges by zeroing tohost
htif_write_halt_acks(s, payload) ==
    [st |-> set_iflags_H(write_htif_tohost(s, Zero64)), ret |-> TRUE]

htif_write_halt(s, payload) ==
    [st |-> set_iflags_H(s), ret |-> TRUE]

\* tohost >> 56
TohostDevice(v) == v[1] \div 256

\* the command field taken without its mask
TohostCmd_unmasked(v) == v[1]

\* (tohost >> 48) & 0xff
TohostCmd(v) == v[1] % 256

\* tohost & (~1ULL >> 16)
TohostPayload(v) == And64(v, Shr16(Not64(U64(1))))

\* payload & 1
PayloadBit0(payload) == payload[4] % 2 = 1

\* tohost decoding that acknowledges every command it does not handle
htif_write_tohost_acks_unknown(s, v, obs) ==
    LET device == TohostDevice(v)
        cmd == TohostCmd(v)
        payload == TohostPayload(v)
        s1 == write_htif_tohost(s, v)
    IN IF device = 0 /\ cmd = 0 /\ PayloadBit0(payload)
       THEN htif_write_halt(s1, payload)
       ELSE IF device = 1 /\ cmd = 1
       THEN htif_write_putchar(s1, payload, obs)
       ELSE IF device = 1 /\ cmd = 0
       THEN htif_write_getchar(s1, payload)
       ELSE [st |-> write_htif_tohost(s1, Zero64), ret |-> TRUE]

htif_write_tohost(s, v, obs) ==
    LET device == TohostDevice(v)
        cmd == TohostCmd(v)
        payload == TohostPayload(v)
        s1 == write_htif_tohost(s, v)
    IN IF device = 0 /\ cmd = 0 /\ PayloadBit0(payload)
       THEN htif_write_halt(s1, payload)
       ELSE IF device = 1 /\ cmd = 1
       THEN htif_write_putchar(s1, payload, obs)
       ELSE IF device = 1 /\ cmd = 0
       THEN htif_write_getchar(s1, payload)
       ELSE [st |-> s1, ret |-> TRUE]

\* a store to fromhost that polls without clearing m_fromhost_pending
htif_write_fromhost_no_reset(s, val, obs) ==
    LET s1 == write_htif_fromhost(s, val)
    IN [st |-> IF is_interactive(s1) THEN poll_console(s1, obs) ELSE s1,
        ret |-> TRUE]

htif_write_fromhost(s, val, obs) ==
    LET s1 == write_htif_fromhost(s, val)
    IN [st |-> IF is_interactive(s1)
               THEN poll_console(reset_fromhost_pending(s1), obs)
               ELSE s1,
        ret |-> TRUE]

\* a write callback that checks the alignment but not the width
htif_write_any_size(s, offset, val, size_log2, obs) ==
    IF offset % 8 # 0
    THEN [st |-> s, ret |-> FALSE]
    ELSE CASE offset = HTIF_TOHOST_REL_ADDR ->
                htif_write_tohost(s, val, obs)
           [] offset = HTIF_FROMHOST_REL_ADDR ->
                htif_write_fromhost(s, val, obs)
           [] OTHER -> [st |-> s, ret |-> FALSE]

htif_write(s, offset, val, size_log2, obs) ==
    IF size_log2 # 3 \/ offset % 8 # 0
    THEN [st |-> s, ret |-> FALSE]
    ELSE CASE offset = HTIF_TOHOST_REL_ADDR ->
                htif_write_tohost(s, val, obs)
           [] offset = HTIF_FROMHOST_REL_ADDR ->
                htif_write_fromhost(s, val, obs)
           [] OTHER -> [st |-> s, ret |-> FALSE]

----------------------------------------------------------------------------
(* Specification of the HTIF device *)

\* no call outside the handlers has been made
NoRes == [op |-> "none"]

\* the TLBs take no part in the specifications of the devices
NoTlb == <<>>

InitMachine ==
    /\ tohost = Zero64
    /\ fromhost = Zero64
    /\ iflags = [PRV |-> 3, I |-> FALSE, H |-> FALSE]
    /\ mip = Zero64
    /\ mie = Zero64
    /\ brk = FALSE
    /\ m_interactive \in BOOLEAN
    /\ m_fromhost_pending = FALSE
    /\ m_buf = [i \in BufIdx |-> 0]
    /\ m_buf_pos = 0
    /\ m_buf_len = 0
    /\ m_divisor_counter = 0
    /\ getchar_req = FALSE
    /\ acc = <<>>
    /\ last = Call("init", 0, Zero64, 3, TRUE, FALSE, Zero64)
    /\ gap = HTIF_INTERACT_DIVISOR
    /\ res = NoRes
    /\ reads = <<>>
    /\ delivered = <<>>

\* the clock takes no part in the specifications of the HTIF
InitClock == mcycle = Zero64 /\ mtimecmp = Zero64

\* no range is registered in the specifications that look up none
InitPmas == pmas = <<>>

\* the terminal takes no part in the specifications of the device
NoTty == [phase |-> "none"]

\* the memory and its tree take none either
NoMerkle == mem = <<>> /\ dirty = {} /\ tree = <<>>

InitOthers == InitClock /\ InitPmas /\ tty = NoTty /\ NoMerkle

Init == InitMachine /\ tlb = NoTlb /\ InitOthers

NoObs == [ready |-> FALSE, n |-> 0, data |-> <<>>, wr |-> 1]

\* the guest stores val at offset of the HTIF range; stdin is observed only
\* by a store that reaches poll_console
HtifWrite ==
    \E q \in WriteReqs :
      \E r \in {htif_write(St, q.offset, q.val, q.size_log2, obs) :
                  obs \in (IF q.offset = HTIF_FROMHOST_REL_ADDR
                              /\ m_interactive
                           THEN StdinObs ELSE {NoObs})} :
           /\ Commit(r.st)
           /\ last' = Call("htif_write", q.offset, q.val, q.size_log2,
                           r.ret, FALSE, Zero64)
           /\ UNCHANGED rest

\* the guest loads from offset of the HTIF range
HtifRead ==
    \E q \in ReadReqs :
        \E r \in {htif_read(St, q.offset, q.size_log2)} :
           /\ Commit(St)
           /\ last' = Call("htif_read", q.offset, Zero64, q.size_log2,
                           r.ret, r.set, r.val)
           /\ UNCHANGED rest

\* the outer loop of the interpreter calls interact()
Interact ==
    \E s \in {interact(St, obs) :
                obs \in (IF m_interactive THEN StdinObs ELSE {NoObs})} :
        /\ Commit(s)
        /\ last' = Call("interact", 0, Zero64, 3, TRUE, FALSE, Zero64)
        /\ UNCHANGED rest

Next == HtifWrite \/ HtifRead \/ Interact

Spec == Init /\ [][Next]_vars

----------------------------------------------------------------------------
(* Specification of the break flag: a machine without console input whose  *)
(* mip and mie are written while the guest drives the HTIF                 *)

InitBrk == Init /\ ~m_interactive

WriteMip ==
    \E val \in IntVals :
      \E s \in {write_mip(St, val)} :
        /\ Commit(s)
        /\ last' = Call("write_mip", 0, val, 3, TRUE, FALSE, Zero64)
        /\ UNCHANGED rest

WriteMie ==
    \E val \in IntVals :
      \E s \in {write_mie(St, val)} :
        /\ Commit(s)
        /\ last' = Call("write_mie", 0, val, 3, TRUE, FALSE, Zero64)
        /\ UNCHANGED rest

NextBrk == HtifWrite \/ WriteMip \/ WriteMie

SpecBrk == InitBrk /\ [][NextBrk]_vars

----------------------------------------------------------------------------
(* Specification of the polling rate: the HTIF driven by interact() and by *)
(* guest stores, with gap counting the interact() calls made since the     *)
(* last invocation of poll_console (it stops counting at the divisor, the  *)
(* value it also has while no poll has been made yet)                      *)

\* the call that produced state record s invoked poll_console
Polled(s) == \E i \in DOMAIN s.acc : s.acc[i].what = "poll_console"

RateReqs ==
    {Req(0, 3, <<256, 0, 0, 7>>), Req(0, 3, <<257, 0, 0, 65>>),
     Req(8, 3, Zero64)}

RateInteract ==
    \E s \in {interact(St, obs) :
                obs \in (IF m_interactive THEN StdinObs ELSE {NoObs})} :
        /\ Commit(s)
        /\ last' = Call("interact", 0, Zero64, 3, TRUE, FALSE, Zero64)
        /\ gap' = IF Polled(s) THEN 0
                  ELSE IF gap < HTIF_INTERACT_DIVISOR THEN gap + 1 ELSE gap
        /\ UNCHANGED <<res, tlb, others>>

RateWrite ==
    \E q \in RateReqs :
      \E r \in {htif_write(St, q.offset, q.val, q.size_log2, obs) :
                  obs \in (IF q.offset = HTIF_FROMHOST_REL_ADDR
                              /\ m_interactive
                           THEN StdinObs ELSE {NoObs})} :
           /\ Commit(r.st)
           /\ last' = Call("htif_write", q.offset, q.val, q.size_log2,
                           r.ret, FALSE, Zero64)
           /\ gap' = IF Polled(r.st) THEN 0 ELSE gap
           /\ UNCHANGED <<res, tlb, others>>

NextRate == RateInteract \/ RateWrite

SpecRate == Init /\ [][NextRate]_vars

----------------------------------------------------------------------------
(* Specification of the decoding of tohost: the three fields that          *)
(* htif_write_tohost extracts from a written value, recorded in res        *)

DecodeVals ==
    {<<a, b, c, e>> : a \in {0, 1, 255, 256, 257, 4660, 32768, 65535},
                      b \in {0, 32768, 65535},
                      c \in {0, 1},
                      e \in {0, 1, 65535}}

Decode ==
    \E v \in DecodeVals :
        /\ res' = [op |-> "decode", v |-> v, device |-> TohostDevice(v),
                   cmd |-> TohostCmd(v), payload |-> TohostPayload(v)]
        /\ UNCHANGED <<tohost, fromhost, iflags, mip, mie, brk, m_interactive,
                       m_fromhost_pending, m_buf, m_buf_pos, m_buf_len,
                       m_divisor_counter, getchar_req, acc, last, gap, tlb,
                       others>>

SpecDecode == Init /\ [][Decode]_vars

----------------------------------------------------------------------------
(* Specification of the peek callback: htif_peek over a page held as its   *)
(* 64-bit words (word i covers bytes 8*i .. 8*i+7), recorded in res        *)

\* size of a page in bytes
PMA_PAGE_SIZE == 4096

PageWords == 0 .. (PMA_PAGE_SIZE \div 8 - 1)

\* memset that leaves the page as it was
PeekClear_none(scratch) == scratch

\* memset(scratch, 0, PMA_PAGE_SIZE)
PeekClear(scratch) == [i \in PageWords |-> Zero64]

\* the two registers stored at each other's place
PeekFill_swapped(page, s) ==
    [page EXCEPT ![HTIF_TOHOST_REL_ADDR \div 8] = read_htif_fromhost(s),
                 ![HTIF_FROMHOST_REL_ADDR \div 8] = read_htif_tohost(s)]

\* the two aliased_aligned_write<uint64_t> calls
PeekFill(page, s) ==
    [page EXCEPT ![HTIF_TOHOST_REL_ADDR \div 8] = read_htif_tohost(s),
                 ![HTIF_FROMHOST_REL_ADDR \div 8] = read_htif_fromhost(s)]

\* a callback that checks the alignment but not the range
htif_peek_no_range(s, length, page_offset, scratch) ==
    IF page_offset % PMA_PAGE_SIZE # 0
    THEN [st |-> s, ret |-> FALSE, page_data |-> "nullptr",
          scratch |-> scratch]
    ELSE IF page_offset # 0
    THEN [st |-> s, ret |-> TRUE, page_data |-> "nullptr",
          scratch |-> scratch]
    ELSE [st |-> s, ret |-> TRUE, page_data |-> "scratch",
          scratch |-> PeekFill(PeekClear(scratch), s)]

\* st is the state the callback leaves, scratch the buffer it leaves
htif_peek(s, length, page_offset, scratch) ==
    IF page_offset % PMA_PAGE_SIZE # 0 \/ page_offset >= length
    THEN [st |-> s, ret |-> FALSE, page_data |-> "nullptr",
          scratch |-> scratch]
    ELSE IF page_offset # 0
    THEN [st |-> s, ret |-> TRUE, page_data |-> "nullptr",
          scratch |-> scratch]
    ELSE [st |-> s, ret |-> TRUE, page_data |-> "scratch",
          scratch |-> PeekFill(PeekClear(scratch), s)]

\* what the caller sees: the return value and the page page_data points to
PeekSeen(r) ==
    [ret |-> r.ret,
     page |-> IF r.page_data = "scratch" THEN r.scratch ELSE <<>>]

\* lengths of the registered range
PeekLengths == {PMA_PAGE_SIZE, 2 * PMA_PAGE_SIZE}

PeekOffsets == {0, 8, PMA_PAGE_SIZE, 2 * PMA_PAGE_SIZE}

\* contents of the caller's buffer before the call
ScratchVals ==
    {[i \in PageWords |-> Zero64],
     [i \in PageWords |-> <<65535, 65535, 65535, 65535>>],
     [i \in PageWords |-> IF i = 2 THEN <<0, 0, 0, 1>> ELSE Zero64],
     [i \in PageWords |->
         IF i = PMA_PAGE_SIZE \div 8 - 1 THEN <<32768, 0, 0, 0>> ELSE Zero64]}

PeekReqs ==
    {Req(0, 3, <<256, 0, 0, 7>>), Req(0, 3, <<257, 0, 0, 65>>),
     Req(0, 3, <<512, 0, 0, 1>>), Req(8, 3, <<0, 0, 0, 5>>),
     Req(8, 3, Zero64)}

PeekStore ==
    \E q \in PeekReqs :
      \E r \in {htif_write(St, q.offset, q.val, q.size_log2, NoObs)} :
           /\ Commit(r.st)
           /\ last' = Call("htif_write", q.offset, q.val, q.size_log2,
                           r.ret, FALSE, Zero64)
           /\ UNCHANGED rest

HtifPeek ==
    \E length \in PeekLengths, page_offset \in PeekOffsets,
       scratch \in ScratchVals :
      \E r \in {htif_peek(St, length, page_offset, scratch)} :
           /\ Commit(r.st)
           /\ last' = Call("htif_peek", page_offset, Zero64, 3, r.ret,
                           FALSE, Zero64)
           /\ res' = [op |-> "htif_peek", length |-> length,
                      page_offset |-> page_offset, before |-> scratch,
                      ret |-> r.ret, page_data |-> r.page_data,
                      scratch |-> r.scratch]
           /\ UNCHANGED <<gap, tlb, others>>

InitPeek == Init /\ ~m_interactive

NextPeek == PeekStore \/ HtifPeek

SpecPeek == InitPeek /\ [][NextPeek]_vars

----------------------------------------------------------------------------
(* Specification of the iflags register: write_iflags and the two          *)
(* set_brk_* refreshes of machine_state, next to the stores that halt      *)

\* positions of the fields of the packed iflags register
IFLAGS_H_SHIFT == 0

IFLAGS_I_SHIFT == 1

IFLAGS_PRV_SHIFT == 2

\* bit k of a 64-bit word: (val >> k) & 1
Bit(val, k) ==
    IF k > 63 THEN 0 ELSE (val[4 - (k \div 16)] \div (2 ^ (k % 16))) % 2

\* (val >> IFLAGS_PRV_SHIFT) & 3
IflagsPRV(val) ==
    Bit(val, IFLAGS_PRV_SHIFT) + 2 * Bit(val, IFLAGS_PRV_SHIFT + 1)

write_iflags(s, val) ==
    [s EXCEPT !.iflags = [H |-> Bit(val, IFLAGS_H_SHIFT) = 1,
                          I |-> Bit(val, IFLAGS_I_SHIFT) = 1,
                          PRV |-> IflagsPRV(val)]]

\* packing with the I and H fields exchanged
packed_iflags_swapped(PRV, I, H) ==
    Or64(Or64(U64(PRV * (2 ^ IFLAGS_PRV_SHIFT)), U64(H * (2 ^ IFLAGS_I_SHIFT))),
         U64(I * (2 ^ IFLAGS_H_SHIFT)))

\* (PRV << IFLAGS_PRV_SHIFT) | (I << IFLAGS_I_SHIFT) | (H << IFLAGS_H_SHIFT)
packed_iflags(PRV, I, H) ==
    Or64(Or64(U64(PRV * (2 ^ IFLAGS_PRV_SHIFT)), U64(I * (2 ^ IFLAGS_I_SHIFT))),
         U64(H * (2 ^ IFLAGS_H_SHIFT)))

\* the two flags are passed as int: false is 0 and true is 1
read_iflags(s) ==
    packed_iflags(s.iflags.PRV,
                  IF s.iflags.I THEN 1 ELSE 0,
                  IF s.iflags.H THEN 1 ELSE 0)

\* values written to iflags
IflagsVals ==
    {<<0, 0, 0, k>> : k \in 0..15}
    \cup {<<65535, 65535, 65535, 65535>>, <<0, 0, 0, 65520>>}

IflagsReqs ==
    {Req(0, 3, <<0, 4660, 0, 3>>), Req(0, 3, <<0, 0, 0, 2>>),
     Req(0, 3, <<257, 0, 0, 65>>), Req(8, 3, <<0, 0, 0, 5>>)}

WriteIflags ==
    \E val \in IflagsVals :
      \E s \in {write_iflags(St, val)} :
        /\ Commit(s)
        /\ last' = Call("write_iflags", 0, val, 3, TRUE, FALSE, Zero64)
        /\ UNCHANGED rest

ReadIflags ==
    \E val \in {read_iflags(St)} :
        /\ Commit(St)
        /\ last' = Call("read_iflags", 0, Zero64, 3, TRUE, TRUE, val)
        /\ UNCHANGED rest

IflagsStore ==
    \E q \in IflagsReqs :
      \E r \in {htif_write(St, q.offset, q.val, q.size_log2, NoObs)} :
           /\ Commit(r.st)
           /\ last' = Call("htif_write", q.offset, q.val, q.size_log2,
                           r.ret, FALSE, Zero64)
           /\ UNCHANGED rest

SetBrkFromMipMie ==
    \E s \in {set_brk_from_mip_mie(St)} :
        /\ Commit(s)
        /\ last' = Call("set_brk_from_mip_mie", 0, Zero64, 3, TRUE, FALSE,
                        Zero64)
        /\ UNCHANGED rest

SetBrkFromIflagsH ==
    \E s \in {set_brk_from_iflags_H(St)} :
        /\ Commit(s)
        /\ last' = Call("set_brk_from_iflags_H", 0, Zero64, 3, TRUE, FALSE,
                        Zero64)
        /\ UNCHANGED rest

InitIflags == Init /\ ~m_interactive

NextIflags ==
    \/ WriteIflags \/ ReadIflags \/ IflagsStore
    \/ SetBrkFromMipMie \/ SetBrkFromIflagsH

SpecIflags == InitIflags /\ [][NextIflags]_vars

----------------------------------------------------------------------------
(* Specification of the TLBs: init_tlb applied to the three arrays of      *)
(* machine_state, whatever they held before                                *)

TLB_SIZE == 256

TlbIdx == 0 .. (TLB_SIZE - 1)

TlbNames == {"tlb_read", "tlb_write", "tlb_code"}

tlb_entry(pma, paddr_page, vaddr_page, hpage) ==
    [pma |-> pma, paddr_page |-> paddr_page, vaddr_page |-> vaddr_page,
     hpage |-> hpage]

\* UINT64_C(-1)
AllOnes == Not64(Zero64)

\* the entry the loop body leaves
InvalidEntry == tlb_entry("nullptr", AllOnes, AllOnes, "nullptr")

\* an entry that caches a translation
StaleEntry ==
    tlb_entry("pma", <<0, 0, 32768, 4096>>, <<0, 0, 1, 8192>>, "hpage")

\* the loop run for i = 0 .. n - 1 over the three arrays
InitTlbLoop(t, n) ==
    [k \in TlbNames |->
        [i \in TlbIdx |-> IF i < n THEN InvalidEntry ELSE t[k][i]]]

\* the loop stopped one entry early
init_tlb_short(t) == InitTlbLoop(t, TLB_SIZE - 1)

\* for (int i = 0; i < TLB_SIZE; ++i) { ... }
init_tlb(t) == InitTlbLoop(t, TLB_SIZE)

\* what the arrays can hold before the call: one cached translation in any
\* entry of any of the three, or cached translations everywhere
TlbBefore ==
    {[k \in TlbNames |->
        [i \in TlbIdx |-> IF k = n /\ i = j THEN StaleEntry
                          ELSE InvalidEntry]] : n \in TlbNames, j \in TlbIdx}
    \cup {[k \in TlbNames |-> [i \in TlbIdx |-> StaleEntry]]}

InitTlb ==
    /\ tlb' = init_tlb(tlb)
    /\ res' = [op |-> "init_tlb", before |-> tlb]
    /\ last' = Call("init_tlb", 0, Zero64, 3, TRUE, FALSE, Zero64)
    /\ UNCHANGED <<tohost, fromhost, iflags, mip, mie, brk, m_interactive,
                   m_fromhost_pending, m_buf, m_buf_pos, m_buf_len,
                   m_divisor_counter, getchar_req, acc, gap, others>>

InitTlbBefore ==
    InitMachine /\ ~m_interactive /\ tlb \in TlbBefore /\ InitOthers

SpecTlb == InitTlbBefore /\ [][InitTlb]_vars

----------------------------------------------------------------------------
(* Specification of the clock: mcycle advances, mtime is read through      *)
(* rtc_cycle_to_time and compared with mtimecmp                            *)

RTC_FREQ_DIV == 100

\* cycle / RTC_FREQ_DIV with the quotient rounded up
rtc_cycle_to_time_ceil(cycle) ==
    DivSmall64(AddSmall64(cycle, RTC_FREQ_DIV - 1), RTC_FREQ_DIV)

\* cycle / RTC_FREQ_DIV
rtc_cycle_to_time(cycle) == DivSmall64(cycle, RTC_FREQ_DIV)

\* the divisor added instead of multiplied
rtc_time_to_cycle_added(time) == AddSmall64(time, RTC_FREQ_DIV)

\* time * RTC_FREQ_DIV
rtc_time_to_cycle(time) == MulSmall64(time, RTC_FREQ_DIV)

\* the value a read of mtime returns
read_clint_mtime(cycle) == rtc_cycle_to_time(cycle)

\* a timer interrupt is pending iff mtime >= mtimecmp
TimerPending(cycle, timecmp) == Le64(timecmp, read_clint_mtime(cycle))

\* values of mcycle: around multiples of the divisor, around the carries
\* between the 16-bit limbs and at the top of the range
CycleBases ==
    {Zero64, U64(900), U64(65400), <<0, 0, 99, 65436>>,
     <<0, 65535, 65535, 65436>>, <<65535, 65535, 65535, 65420>>}

CycleVals ==
    {AddSmall64(b, n) : b \in CycleBases, n \in {0, 1, 99, 100, 115, 199}}

\* values of mtimecmp: small ones, the largest whose cycle count fits in
\* 64 bits, and larger ones
TimecmpVals ==
    {Zero64, U64(1), U64(10), U64(655), U64(656), <<0, 0, 1, 0>>,
     DivSmall64(Not64(Zero64), RTC_FREQ_DIV),
     AddSmall64(DivSmall64(Not64(Zero64), RTC_FREQ_DIV), 1),
     Not64(Zero64)}

\* the interpreter advances mcycle
AdvanceCycle ==
    \E c \in CycleVals :
        /\ Lt64(mcycle, c)
        /\ mcycle' = c
        /\ UNCHANGED <<htifvars, gap, res, tlb, mtimecmp, pmas, tty, merklevars>>

\* the guest reads mtime
ReadMtime ==
    /\ res' = [op |-> "read_clint_mtime", cycle |-> mcycle,
               time |-> read_clint_mtime(mcycle)]
    /\ UNCHANGED <<htifvars, gap, tlb, mcycle, mtimecmp, pmas, tty, merklevars>>

\* the timer interrupt is looked for
CheckTimer ==
    /\ res' = [op |-> "timer", cycle |-> mcycle, timecmp |-> mtimecmp,
               pending |-> TimerPending(mcycle, mtimecmp)]
    /\ UNCHANGED <<htifvars, gap, tlb, mcycle, mtimecmp, pmas, tty, merklevars>>

\* a deadline in time units is converted to cycles
TimeToCycle ==
    /\ res' = [op |-> "rtc_time_to_cycle", time |-> mtimecmp,
               cycle |-> rtc_time_to_cycle(mtimecmp)]
    /\ UNCHANGED <<htifvars, gap, tlb, mcycle, mtimecmp, pmas, tty, merklevars>>

InitRtc ==
    /\ InitMachine
    /\ ~m_interactive
    /\ tlb = NoTlb
    /\ mcycle \in CycleVals
    /\ mtimecmp \in TimecmpVals
    /\ InitPmas
    /\ tty = NoTty
    /\ NoMerkle

NextRtc == AdvanceCycle \/ ReadMtime \/ CheckTimer \/ TimeToCycle

SpecRtc == InitRtc /\ [][NextRtc]_vars

----------------------------------------------------------------------------
(* Specification of the PMA map: ranges are registered and looked up.      *)
(* Addresses are natural numbers of bytes.                                 *)

pma_entry(start, length) == [start |-> start, length |-> length]

\* the sentinel for an empty range
empty_pma == pma_entry(0, 0)

\* start page-aligned, length a positive multiple of the page size
PmaWellFormed(e) ==
    /\ e.start % PMA_PAGE_SIZE = 0
    /\ e.length > 0
    /\ e.length % PMA_PAGE_SIZE = 0

PmaOverlap(e, f) ==
    e.start < f.start + f.length /\ f.start < e.start + e.length

\* the vector with e put at its place in the order of the starts
PmaInsert(ps, e) ==
    LET n == Cardinality({i \in DOMAIN ps : ps[i].start < e.start})
    IN [i \in 1..(Len(ps) + 1) |->
           IF i <= n THEN ps[i] ELSE IF i = n + 1 THEN e ELSE ps[i - 1]]

\* a full vector, a malformed range and an overlap are refused and leave
\* the vector as it was
register_pma_entry(ps, e) ==
    IF \/ Len(ps) >= PMA_MAX
       \/ ~PmaWellFormed(e)
       \/ \E i \in DOMAIN ps : PmaOverlap(ps[i], e)
    THEN [pmas |-> ps, ok |-> FALSE]
    ELSE [pmas |-> PmaInsert(ps, e), ok |-> TRUE]

\* a lookup that asks only for the first byte to lie in the range
find_pma_entry_first_byte(ps, paddr, length) ==
    LET hits == {i \in DOMAIN ps :
                    /\ ps[i].start <= paddr
                    /\ paddr < ps[i].start + ps[i].length}
    IN IF hits = {} THEN empty_pma
       ELSE ps[CHOOSE i \in hits : \A j \in hits : i <= j]

\* the first entry that contains [paddr, paddr + length), or the sentinel
find_pma_entry(ps, paddr, length) ==
    LET hits == {i \in DOMAIN ps :
                    /\ ps[i].start <= paddr
                    /\ paddr + length <= ps[i].start + ps[i].length}
    IN IF hits = {} THEN empty_pma
       ELSE ps[CHOOSE i \in hits : \A j \in hits : i <= j]

PmaStarts == {0, 100, PMA_PAGE_SIZE, 2 * PMA_PAGE_SIZE, 4 * PMA_PAGE_SIZE}

PmaLengths == {0, PMA_PAGE_SIZE, 2 * PMA_PAGE_SIZE}

FindAddrs ==
    {0, PMA_PAGE_SIZE - 4, PMA_PAGE_SIZE, 2 * PMA_PAGE_SIZE - 8,
     3 * PMA_PAGE_SIZE - 4, 3 * PMA_PAGE_SIZE, 5 * PMA_PAGE_SIZE - 1,
     6 * PMA_PAGE_SIZE}

FindLengths == {1, 8}

RegisterPma ==
    \E start \in PmaStarts, length \in PmaLengths :
      \E r \in {register_pma_entry(pmas, pma_entry(start, length))} :
        /\ pmas' = r.pmas
        /\ res' = [op |-> "register_pma_entry",
                   entry |-> pma_entry(start, length), ok |-> r.ok]
        /\ UNCHANGED <<htifvars, gap, tlb, mcycle, mtimecmp, tty, merklevars>>

FindPma ==
    \E paddr \in FindAddrs, length \in FindLengths :
        /\ res' = [op |-> "find_pma_entry", paddr |-> paddr,
                   length |-> length,
                   entry |-> find_pma_entry(pmas, paddr, length)]
        /\ UNCHANGED <<htifvars, gap, tlb, mcycle, mtimecmp, pmas, tty, merklevars>>

InitPma == InitMachine /\ ~m_interactive /\ tlb = NoTlb /\ InitOthers

NextPma == RegisterPma \/ FindPma

SpecPma == InitPma /\ [][NextPma]_vars

----------------------------------------------------------------------------
(* Specification of the console's terminal: the constructor and the        *)
(* destructor of the HTIF.  A termios is a record of its flag sets and of  *)
(* c_cc[VMIN], c_cc[VTIME]; tcgetattr and tcsetattr are taken to succeed   *)
(* (the code ignores what they return), get_ttyfd may find no terminal.    *)

termios(lflag, iflag, oflag, cflag, vmin, vtime) ==
    [lflag |-> lflag, iflag |-> iflag, oflag |-> oflag, cflag |-> cflag,
     vmin |-> vmin, vtime |-> vtime]

\* memset(&tty, 0, sizeof(tty))
ZeroTermios == termios({}, {}, {}, {}, 0, 0)

CSIZE == {"CS5", "CS6", "CS7", "CS8"}

\* the terminal set to "raw" mode
RawMode(t) ==
    termios(t.lflag \ {"ECHO", "ICANON", "ECHONL", "ISIG", "IEXTEN"},
            t.iflag \ {"IGNBRK", "BRKINT", "PARMRK", "ICRNL", "ISTRIP",
                       "INLCR", "IGNCR", "IXON"},
            t.oflag \cup {"OPOST"},
            (t.cflag \ (CSIZE \cup {"PARENB"})) \cup {"CS8"},
            1, 0)

\* the attributes saved after they were changed
init_console_saves_raw(y, fd) ==
    IF fd >= 0
    THEN [y EXCEPT !.m_ttyfd = fd,
                   !.open = @ \cup {fd},
                   !.m_oldtty = RawMode(y.term),
                   !.term = RawMode(y.term),
                   !.sets = @ + 1]
    ELSE [y EXCEPT !.m_ttyfd = fd]

\* fd is what get_ttyfd() returned: a descriptor just opened, or -1
init_console(y, fd) ==
    IF fd >= 0
    THEN [y EXCEPT !.m_ttyfd = fd,
                   !.open = @ \cup {fd},
                   !.m_oldtty = y.term,
                   !.term = RawMode(y.term),
                   !.sets = @ + 1]
    ELSE [y EXCEPT !.m_ttyfd = fd]

end_console(y) ==
    IF y.m_ttyfd >= 0
    THEN [y EXCEPT !.term = y.m_oldtty,
                   !.open = @ \ {y.m_ttyfd},
                   !.sets = @ + 1]
    ELSE y

\* htif::htif(machine &m, bool i)
htif_ctor(y, i, fd) ==
    LET y0 == [y EXCEPT !.phase = "live", !.m_ttyfd = -1,
                        !.m_oldtty = ZeroTermios]
    IN IF i THEN init_console(y0, fd) ELSE y0

\* htif::~htif()
htif_dtor(y, i) ==
    LET y1 == IF i THEN end_console(y) ELSE y
    IN [y1 EXCEPT !.phase = "dead"]

\* attributes the terminal can have before the HTIF exists
TermVals ==
    {termios(l, i, o, c, v[1], v[2]) :
        l \in {{"ECHO", "ICANON", "ISIG", "IEXTEN"}, {"ECHONL"}},
        i \in {{"ICRNL", "IXON"}, {"IUTF8"}},
        o \in {{"OPOST", "ONLCR"}, {"ONLCR"}},
        c \in {{"CS8", "CREAD"}, {"CS7", "PARENB", "CREAD"}},
        v \in {<<1, 0>>, <<0, 5>>}}

\* what get_ttyfd() can return
TtyFds == {-1, 3}

HtifConstruct ==
    /\ tty.phase = "before"
    /\ \E fd \in TtyFds :
          tty' = htif_ctor(tty, m_interactive, fd)
    /\ UNCHANGED <<htifvars, gap, res, tlb, mcycle, mtimecmp, pmas,
                   merklevars>>

HtifDestroy ==
    /\ tty.phase = "live"
    /\ tty' = htif_dtor(tty, m_interactive)
    /\ UNCHANGED <<htifvars, gap, res, tlb, mcycle, mtimecmp, pmas,
                   merklevars>>

InitTty ==
    /\ InitMachine
    /\ tlb = NoTlb
    /\ InitClock
    /\ InitPmas
    /\ NoMerkle
    /\ \E t \in TermVals :
          tty = [phase |-> "before", term |-> t, term0 |-> t, m_ttyfd |-> -1,
                 m_oldtty |-> ZeroTermios, open |-> {}, sets |-> 0]

NextTty == HtifConstruct \/ HtifDestroy

SpecTty == InitTty /\ [][NextTty]_vars

----------------------------------------------------------------------------
(* Specification of the Merkle tree: words are written, the tree is        *)
(* updated and proofs are taken.  A hash is the term it is the hash of: a  *)
(* word's hash is <<"word", value>>, a node's is the pair of its           *)
(* children's hashes.  The tree keeps the hashes from pages up; inside a   *)
(* page hashes are computed from the page's words.                         *)

\* log2 of the size of a word
LOG2_WORD_SIZE == 3

WordAddrs == {8 * i : i \in 0 .. (2 ^ (LOG2_ROOT_SIZE - LOG2_WORD_SIZE) - 1)}

\* the nodes of the tree from pages up, as <<address, log2_size>>
TreeNodes ==
    {n \in (0 .. (2 ^ LOG2_ROOT_SIZE - 1)) \X
           (LOG2_PAGE_SIZE .. LOG2_ROOT_SIZE) : n[1] % (2 ^ n[2]) = 0}

\* a rounded down to a multiple of 2^k
AlignDown(a, k) == a - (a % (2 ^ k))

page_of(a) == AlignDown(a, LOG2_PAGE_SIZE)

\* the hash of the node of m at address a of size 2^k
RECURSIVE MemHash(_, _, _)
MemHash(m, a, k) ==
    IF k = LOG2_WORD_SIZE THEN <<"word", m[a]>>
    ELSE <<MemHash(m, a, k - 1), MemHash(m, a + 2 ^ (k - 1), k - 1)>>

\* the hash of a node: kept by the tree from pages up, computed below
NodeHash(m, t, a, k) ==
    IF k >= LOG2_PAGE_SIZE THEN t[<<a, k>>] ELSE MemHash(m, a, k)

\* the node <<a, k>> lies above a dirty page, or is one
AboveDirty(d, a, k) == \E p \in d : a <= p /\ p < a + 2 ^ k

\* the levels from k up rehashed where they lie above a dirty page
RECURSIVE RehashFrom(_, _, _)
RehashFrom(t, d, k) ==
    IF k > LOG2_ROOT_SIZE THEN t
    ELSE RehashFrom(
            [n \in DOMAIN t |->
                IF n[2] = k /\ AboveDirty(d, n[1], k)
                THEN <<t[<<n[1], k - 1>>], t[<<n[1] + 2 ^ (k - 1), k - 1>>]>>
                ELSE t[n]],
            d, k + 1)

\* an update that rehashes the dirty pages but not the nodes above them
update_merkle_tree_pages_only(m, t, d) ==
    [n \in DOMAIN t |->
        IF n[2] = LOG2_PAGE_SIZE /\ n[1] \in d
        THEN MemHash(m, n[1], LOG2_PAGE_SIZE)
        ELSE t[n]]

\* rehashes the pages whose bit is set, then the nodes above them
update_merkle_tree(m, t, d) ==
    RehashFrom(
        [n \in DOMAIN t |->
            IF n[2] = LOG2_PAGE_SIZE /\ n[1] \in d
            THEN MemHash(m, n[1], LOG2_PAGE_SIZE)
            ELSE t[n]],
        d, LOG2_PAGE_SIZE + 1)

get_root_hash(t) == t[<<0, LOG2_ROOT_SIZE>>]

\* the sibling of the node of size 2^j that contains a
SiblingOf(a, j) ==
    LET n == AlignDown(a, j)
    IN IF (n \div (2 ^ j)) % 2 = 0 THEN n + 2 ^ j ELSE n - 2 ^ j

\* a proof whose sibling hashes are those of the nodes on the path
proof_of_path_nodes(m, t, a, k) ==
    [address |-> a, log2_size |-> k,
     target_hash |-> NodeHash(m, t, a, k),
     root_hash |-> get_root_hash(t),
     sibling_hashes |->
        [j \in k .. (LOG2_ROOT_SIZE - 1) |->
            NodeHash(m, t, AlignDown(a, j), j)]]

\* the proof of the node <<a, k>> in the tree t over the memory m
proof_of(m, t, a, k) ==
    [address |-> a, log2_size |-> k,
     target_hash |-> NodeHash(m, t, a, k),
     root_hash |-> get_root_hash(t),
     sibling_hashes |->
        [j \in k .. (LOG2_ROOT_SIZE - 1) |->
            NodeHash(m, t, SiblingOf(a, j), j)]]

\* the hash a proof's target folds to with the sibling hashes from level j
RECURSIVE FoldProof(_, _, _)
FoldProof(p, h, j) ==
    IF j >= LOG2_ROOT_SIZE THEN h
    ELSE FoldProof(p,
            IF (p.address \div (2 ^ j)) % 2 = 0
            THEN <<h, p.sibling_hashes[j]>>
            ELSE <<p.sibling_hashes[j], h>>,
            j + 1)

\* the tree recomputed from the memory, bottom-up
ReferenceTree(m) == [n \in TreeNodes |-> MemHash(m, n[1], n[2])]

verify_merkle_tree(m, t) == t = ReferenceTree(m)

\* every page whose hash in the tree is not that of its words is dirty
verify_dirty_page_maps(m, t, d) ==
    \A n \in DOMAIN t :
        (n[2] = LOG2_PAGE_SIZE /\ t[n] # MemHash(m, n[1], LOG2_PAGE_SIZE))
            => n[1] \in d

\* the addresses and the values of the writes
WriteAddrs == {0, 8, 40}

WriteVals == {0, 1}

\* the nodes a proof can be asked for
ProofNodes ==
    {n \in (0 .. (2 ^ LOG2_ROOT_SIZE - 1)) \X
           (LOG2_WORD_SIZE .. LOG2_ROOT_SIZE) : n[1] % (2 ^ n[2]) = 0}

\* a word of a memory range is written: its page's bit is set, then the
\* word is stored
MemWrite ==
    \E a \in WriteAddrs, v \in WriteVals :
        /\ dirty' = dirty \cup {page_of(a)}
        /\ mem' = [mem EXCEPT ![a] = v]
        /\ res' = [op |-> "write", address |-> a, value |-> v]
        /\ UNCHANGED <<htifvars, gap, tlb, mcycle, mtimecmp, pmas, tty, tree>>

UpdateMerkleTree ==
    /\ tree' = update_merkle_tree(mem, tree, dirty)
    /\ dirty' = {}
    /\ res' = [op |-> "update_merkle_tree", ret |-> TRUE]
    /\ UNCHANGED <<htifvars, gap, tlb, mcycle, mtimecmp, pmas, tty, mem>>

\* get_proof brings the tree up to date and takes the proof from it
GetProof ==
    \E n \in ProofNodes :
      \E t \in {update_merkle_tree(mem, tree, dirty)} :
        /\ tree' = t
        /\ dirty' = {}
        /\ res' = [op |-> "get_proof", proof |-> proof_of(mem, t, n[1], n[2])]
        /\ UNCHANGED <<htifvars, gap, tlb, mcycle, mtimecmp, pmas, tty, mem>>

InitMerkle ==
    /\ InitMachine
    /\ ~m_interactive
    /\ tlb = NoTlb
    /\ InitClock
    /\ InitPmas
    /\ tty = NoTty
    /\ mem = [a \in WordAddrs |-> 0]
    /\ dirty = {}
    /\ tree = ReferenceTree([a \in WordAddrs |-> 0])

NextMerkle == MemWrite \/ UpdateMerkleTree \/ GetProof

SpecMerkle == InitMerkle /\ [][NextMerkle]_vars

----------------------------------------------------------------------------
(* Specification of the console input: an interactive HTIF polled by       *)
(* interact() and by the guest's stores to fromhost, with the history of   *)
(* what the reads of stdin gave and of what the polls put in fromhost      *)

\* what the call that produced state record s read from stdin
ReadBy(s, obs) ==
    IF \E i \in DOMAIN s.acc : s.acc[i].what = "stdin"
    THEN <<obs.data>> ELSE <<>>

\* the payloads that the poll of the call that produced s put in fromhost;
\* the first guest entries of the trace are the guest's own
StoredBy(s, guest) ==
    LET w == SelectSeq(s.acc, LAMBDA a : a.what = "fromhost")
    IN [i \in 1 .. (Len(w) - guest) |-> w[i + guest].val[4]]

\* stdin as the calls can observe it while reads are still followed
FifoObs == IF Len(reads) < MaxReads THEN StdinObs ELSE {NoObs}

FifoInteract ==
    \E obs \in FifoObs :
      \E s \in {interact(St, obs)} :
        /\ Commit(s)
        /\ last' = Call("interact", 0, Zero64, 3, TRUE, FALSE, Zero64)
        /\ reads' = reads \o ReadBy(s, obs)
        /\ delivered' = delivered \o StoredBy(s, 0)
        /\ UNCHANGED <<gap, res, tlb, mcycle, mtimecmp, pmas, tty,
                       merklevars>>

FifoStore ==
    \E val \in FromhostVals, obs \in FifoObs :
      \E r \in {htif_write(St, HTIF_FROMHOST_REL_ADDR, val, 3, obs)} :
        /\ Commit(r.st)
        /\ last' = Call("htif_write", HTIF_FROMHOST_REL_ADDR, val, 3,
                        r.ret, FALSE, Zero64)
        /\ reads' = reads \o ReadBy(r.st, obs)
        /\ delivered' = delivered \o StoredBy(r.st, 1)
        /\ UNCHANGED <<gap, res, tlb, mcycle, mtimecmp, pmas, tty,
                       merklevars>>

InitFifo == Init /\ m_interactive

NextFifo == FifoInteract \/ FifoStore

SpecFifo == InitFifo /\ [][NextFifo]_vars

----------------------------------------------------------------------------
(* Specification of the console output: a machine without console input    *)
(* whose guest drives the HTIF while the host's stdout accepts or refuses  *)
(* each byte                                                               *)

\* what write() can return for one byte: an error, nothing, the byte
StdoutObs == {[NoObs EXCEPT !.wr = n] : n \in {-1, 0, 1}}

StdoutWrite ==
    \E q \in WriteReqs, obs \in StdoutObs :
      \E r \in {htif_write(St, q.offset, q.val, q.size_log2, obs)} :
        /\ Commit(r.st)
        /\ last' = Call("htif_write", q.offset, q.val, q.size_log2,
                        r.ret, FALSE, Zero64)
        /\ UNCHANGED rest

InitStdout == Init /\ ~m_interactive

NextStdout == StdoutWrite \/ HtifRead

SpecStdout == InitStdout /\ [][NextStdout]_vars

----------------------------------------------------------------------------
(* Vocabulary of the properties *)

\* the last call was an aligned 64-bit store to tohost / to fromhost
TohostWritten ==
    last.op = "htif_write" /\ last.offset = 0 /\ last.size_log2 = 3

FromhostWritten ==
    last.op = "htif_write" /\ last.offset = 8 /\ last.size_log2 = 3

\* fields of a value stored to tohost: bits 63..56, bits 55..48, bit 0
DeviceOf(v) == v[1] \div 256
CmdOf(v) == v[1] % 256
IsHalt(v) == DeviceOf(v) = 0 /\ CmdOf(v) = 0 /\ v[4] % 2 = 1
IsPutchar(v) == DeviceOf(v) = 1 /\ CmdOf(v) = 1
IsGetchar(v) == DeviceOf(v) = 1 /\ CmdOf(v) = 0
IsUnknown(v) == ~IsHalt(v) /\ ~IsPutchar(v) /\ ~IsGetchar(v)

\* the bytes the last call wrote to stdout, in order
Emitted == SelectSeq(acc, LAMBDA a : a.what = "stdout")

\* the last call read stdin
StdinRead == \E i \in DOMAIN acc : acc[i].what = "stdin"

\* the last call ran poll_console and the poll stored an input byte in
\* fromhost (in a store to fromhost the first access is the guest's value)
DeliveredByPoll ==
    \E i \in DOMAIN acc :
        /\ acc[i].what = "fromhost"
        /\ \/ last.op = "interact"
           \/ FromhostWritten /\ i > 1

----------------------------------------------------------------------------
(* Properties of the tohost commands *)

\* C1 (as stated): after an accepted write to tohost of a value that is no
\* recognized command, the write has returned true and tohost holds 0.
C1_UnknownAckedWithZero ==
    (TohostWritten /\ IsUnknown(last.val)) =>
        (last.ret /\ tohost = Zero64)

\* C1 (amended): after an accepted write to tohost of a value v that is no
\* recognized command, the write has returned true, tohost holds v and the
\* store of v to tohost is the only access the write made.
C1_UnknownIgnored ==
    (TohostWritten /\ IsUnknown(last.val)) =>
        /\ last.ret
        /\ tohost = last.val
        /\ acc = <<Access("tohost", last.val)>>

C1_Witness ==
    /\ TohostWritten
    /\ IsUnknown(last.val)
    /\ last.val = <<512, 0, 0, 1>>
    /\ tohost = <<512, 0, 0, 1>>

\* C2: an aligned 64-bit write of v to tohost with device 0, cmd 0 and
\* payload bit 0 set returns true, sets iflags.H, leaves tohost equal to v
\* and fromhost unchanged; a read of tohost returns the value tohost holds.
C2_HaltKeepsTohost ==
    [][ /\ (TohostWritten' /\ IsHalt(last'.val)) =>
             /\ last'.ret
             /\ iflags'.H
             /\ tohost' = last'.val
             /\ fromhost' = fromhost
        /\ (last'.op = "htif_read" /\ last'.offset = 0 /\ last'.ret) =>
             /\ last'.set
             /\ last'.pval = tohost ]_vars

C2_Witness ==
    /\ last.op = "htif_read" /\ last.offset = 0 /\ last.ret
    /\ last.pval = <<0, 4660, 0, 3>>
    /\ iflags.H

\* C3: an aligned 64-bit write to tohost with device 1, cmd 1 writes exactly
\* one byte, payload & 0xFF, to stdout and ends with tohost = 0 and
\* fromhost = (1<<56)|(1<<48); iflags.H is unchanged.
C3_Putchar ==
    [][ (TohostWritten' /\ IsPutchar(last'.val)) =>
          /\ last'.ret
          /\ Emitted' = <<Access("stdout", U64(last'.val[4] % 256))>>
          /\ tohost' = Zero64
          /\ fromhost' = <<257, 0, 0, 0>>
          /\ iflags'.H = iflags.H ]_vars

C3_Witness ==
    /\ TohostWritten
    /\ last.val = <<257, 0, 1, 511>>
    /\ Emitted = <<Access("stdout", U64(255))>>
    /\ fromhost = <<257, 0, 0, 0>>

\* C4: an aligned 64-bit write to tohost with device 1, cmd 0 ends with
\* tohost = 0 and changes neither fromhost nor fromhost_pending nor iflags.H.
C4_GetcharFrame ==
    [][ (TohostWritten' /\ IsGetchar(last'.val)) =>
          /\ last'.ret
          /\ tohost' = Zero64
          /\ fromhost' = fromhost
          /\ m_fromhost_pending' = m_fromhost_pending
          /\ iflags'.H = iflags.H ]_vars

C4_Witness ==
    /\ TohostWritten
    /\ IsGetchar(last.val)
    /\ tohost = Zero64
    /\ m_fromhost_pending
    /\ fromhost = <<256, 0, 0, 255>>

----------------------------------------------------------------------------
(* Properties of the break flag *)

\* C5: in every state reached by mip/mie updates and halt requests, brk is
\* true exactly when (mip & mie) != 0 or iflags.H is set.
C5_BrkIffPendingOrHalted ==
    brk <=> (ToBool(And64(mip, mie)) \/ iflags.H)

\* C6: once iflags.H is set and brk has been raised for it, brk stays true
\* for as long as iflags.H stays set, whatever mip/mie updates follow.
C6_HaltKeepsBrk ==
    [][ (iflags.H /\ brk /\ iflags'.H) => brk' ]_vars

----------------------------------------------------------------------------
(* Properties of the console input path *)

\* C7: while an input byte delivered by poll_console is pending, fromhost
\* keeps its value in every step that is not a guest write to fromhost.
C7_PendingFromhostKept ==
    [][ (m_fromhost_pending /\ ~FromhostWritten') =>
           fromhost' = fromhost ]_vars

\* C8: while fromhost_pending is true an interact() call neither writes
\* fromhost nor reads stdin nor moves the input buffer position, and
\* fromhost_pending falls from true to false only in a guest write to
\* fromhost on an interactive HTIF.
C8_PendingBlocksPoll ==
    [][ /\ (m_fromhost_pending /\ last'.op = "interact") =>
             /\ fromhost' = fromhost
             /\ ~StdinRead'
             /\ m_buf_pos' = m_buf_pos
             /\ m_buf_len' = m_buf_len
             /\ m_fromhost_pending'
        /\ (m_fromhost_pending /\ ~m_fromhost_pending') =>
             (FromhostWritten' /\ m_interactive) ]_vars

\* a poll ran while an input byte was pending and another was buffered
C8_Witness ==
    /\ m_interactive
    /\ m_fromhost_pending
    /\ last.op = "interact"
    /\ m_divisor_counter = 0
    /\ acc = <<Access("poll_console", Zero64)>>
    /\ m_buf_pos < m_buf_len

\* C9: poll_console stores an input byte in fromhost only if a getchar
\* command has been issued and not yet answered.
C9_InputOnlyOnRequest ==
    [][ DeliveredByPoll' => getchar_req ]_vars

\* C10: a poll that finds fromhost_pending false and an input byte b
\* available sets fromhost to exactly (1<<56)|b, sets fromhost_pending and
\* consumes that one byte: the buffer position ends one past b, counted
\* from 0 when the poll refilled the buffer and from the old position
\* (with the buffer untouched) when it did not.
C10_PollDelivers ==
    [][ DeliveredByPoll' =>
          /\ m_buf_pos' \in 1 .. m_buf_len'
          /\ fromhost' = <<256, 0, 0, m_buf'[m_buf_pos' - 1]>>
          /\ m_fromhost_pending'
          /\ IF StdinRead'
             THEN m_buf_pos' = 1
             ELSE /\ m_buf_pos' = m_buf_pos + 1
                  /\ m_buf_len' = m_buf_len
                  /\ m_buf' = m_buf ]_vars

C10_Witness ==
    /\ DeliveredByPoll
    /\ ~StdinRead
    /\ m_buf_pos = 2
    /\ m_buf[1] = 255
    /\ fromhost = <<256, 0, 0, 255>>
    /\ m_fromhost_pending

----------------------------------------------------------------------------
(* Properties of the non-interactive HTIF and of refused accesses *)

\* the last call invoked poll_console
PollInvoked == \E i \in DOMAIN acc : acc[i].what = "poll_console"

\* C11: on a non-interactive HTIF no call invokes poll_console or reads
\* stdin, fromhost_pending stays false, and fromhost changes only in a guest
\* write to fromhost, which leaves the written value there, and in the
\* putchar acknowledgement.
C11_NonInteractiveNoInput ==
    [][ ~m_interactive =>
          /\ ~PollInvoked'
          /\ ~StdinRead'
          /\ ~m_fromhost_pending'
          /\ m_divisor_counter' = m_divisor_counter
          /\ (fromhost' # fromhost) =>
                (FromhostWritten' \/ (TohostWritten' /\ IsPutchar(last'.val)))
          /\ FromhostWritten' => fromhost' = last'.val ]_vars

\* a getchar was requested, fromhost was written and interact() ran
C11_Witness ==
    /\ ~m_interactive
    /\ last.op = "interact"
    /\ getchar_req
    /\ fromhost = <<0, 0, 0, 5>>
    /\ ~m_fromhost_pending

\* the last call was a device access narrower than 64 bits or misaligned
Misaligned ==
    /\ last.op \in {"htif_read", "htif_write"}
    /\ (last.size_log2 # 3 \/ last.offset % 8 # 0)

\* C13: an HTIF read or write with size_log2 != 3 or an offset that is no
\* multiple of 8 returns false, changes none of tohost, fromhost, iflags.H
\* and fromhost_pending, makes no access (no console byte) and does not
\* assign the read result.
C13_OnlyAligned64 ==
    [][ Misaligned' =>
          /\ ~last'.ret
          /\ ~last'.set
          /\ acc' = <<>>
          /\ tohost' = tohost
          /\ fromhost' = fromhost
          /\ iflags'.H = iflags.H
          /\ m_fromhost_pending' = m_fromhost_pending ]_vars

\* a 32-bit store of a halt request to tohost was refused
C13_Witness ==
    /\ last.op = "htif_write"
    /\ last.size_log2 = 2
    /\ last.offset = 0
    /\ IsHalt(last.val)
    /\ ~last.ret
    /\ ~iflags.H

\* C12: between two consecutive invocations of poll_console at least
\* HTIF_INTERACT_DIVISOR calls to interact() occur: a call that invokes
\* poll_console finds, counting itself if it is an interact() call, at
\* least that many interact() calls since the previous invocation.
C12_PollRateLimited ==
    [][ PollInvoked' =>
          (IF last'.op = "interact" THEN gap + 1 ELSE gap)
              >= HTIF_INTERACT_DIVISOR ]_vars

\* C14: the fields decoded from a value v written to tohost are
\* device = bits 63..56, cmd = bits 55..48 and payload = bits 47..0, so
\* that v = device*2^56 + cmd*2^48 + payload with device and cmd below 2^8
\* and payload below 2^48 (no bit belongs to two fields).
C14_DecodePartitions ==
    res.op = "decode" =>
        /\ res.device \in 0..255
        /\ res.cmd \in 0..255
        /\ res.payload[1] = 0
        /\ res.v[1] = res.device * 256 + res.cmd
        /\ \A i \in 2..4 : res.v[i] = res.payload[i]

C14_Witness ==
    /\ res.op = "decode"
    /\ res.v = <<4660, 32768, 1, 65535>>
    /\ res.device = 18
    /\ res.cmd = 52
    /\ res.payload = <<0, 32768, 1, 65535>>

\* the step is a call of htif_peek, whose result is in res'
PeekStep == last'.op = "htif_peek" /\ res'.op = "htif_peek"

\* C15: htif_peek at page offset 0 returns true with a page whose bytes
\* 0..7 hold the current tohost, bytes 8..15 the current fromhost and
\* every other byte zero; at every other page-aligned offset inside the
\* range it returns true with a null page.
C15_PeekPage ==
    [][ PeekStep =>
          /\ res'.page_offset = 0 =>
                /\ res'.ret
                /\ res'.page_data = "scratch"
                /\ res'.scratch[0] = tohost'
                /\ res'.scratch[1] = fromhost'
                /\ \A i \in PageWords \ {0, 1} : res'.scratch[i] = Zero64
          /\ ( /\ res'.page_offset # 0
               /\ res'.page_offset % PMA_PAGE_SIZE = 0
               /\ res'.page_offset < res'.length ) =>
                (res'.ret /\ res'.page_data = "nullptr") ]_vars

C15_Witness ==
    /\ last.op = "htif_peek"
    /\ res.op = "htif_peek"
    /\ res.page_offset = 0
    /\ res.before[PMA_PAGE_SIZE \div 8 - 1] = <<32768, 0, 0, 0>>
    /\ tohost = <<512, 0, 0, 1>>
    /\ fromhost = <<0, 0, 0, 5>>
    /\ res.scratch[0] = <<512, 0, 0, 1>>
    /\ res.scratch[1] = <<0, 0, 0, 5>>

\* C16: htif_peek is deterministic and free of side effects: what it
\* returns depends only on tohost, fromhost, the page offset and the length
\* of the range, never on what the scratch buffer held before, and the
\* call changes no HTIF or machine state.
C16_PeekDeterministic ==
    [][ PeekStep =>
          /\ St' = St
          /\ \A scratch \in ScratchVals :
                PeekSeen(htif_peek(St, res'.length, res'.page_offset,
                                   scratch)) = PeekSeen(res') ]_vars

C16_Witness ==
    /\ last.op = "htif_peek"
    /\ res.op = "htif_peek"
    /\ res.page_offset = 0
    /\ res.before[2] = <<0, 0, 0, 1>>
    /\ res.scratch[2] = Zero64
    /\ fromhost = <<0, 0, 0, 5>>
    /\ res.scratch[1] = <<0, 0, 0, 5>>

\* C18: halted is absorbing: once iflags.H is set, no operation on the
\* machine state (a device read or write, a poll, interact, the set_brk_*
\* refreshes, write_iflags) ever clears it.
C18_HaltedAbsorbing == [][ iflags.H => iflags'.H ]_vars

\* C19: after write_iflags(val), for any 64-bit val, iflags.PRV is one of
\* the legal privilege levels U (0), S (1) and M (3); the reserved encoding
\* 2 is never stored.
C19_PrvLegal == last.op = "write_iflags" => iflags.PRV \in {0, 1, 3}

\* C20: after init_tlb every one of the 256 entries of each of the read,
\* write and code TLBs is invalid: vaddr_page = paddr_page = 2^64 - 1 and
\* pma = hpage = null, so that no page-aligned virtual address equals the
\* vaddr_page of an entry and no entry refers to a PMA.
C20_InitTlbInvalidates ==
    res.op = "init_tlb" =>
        \A k \in TlbNames :
            /\ DOMAIN tlb[k] = 0..255
            /\ \A i \in DOMAIN tlb[k] :
                  /\ tlb[k][i].vaddr_page = <<65535, 65535, 65535, 65535>>
                  /\ tlb[k][i].paddr_page = <<65535, 65535, 65535, 65535>>
                  /\ tlb[k][i].pma = "nullptr"
                  /\ tlb[k][i].hpage = "nullptr"
                  /\ tlb[k][i].vaddr_page[4] % PMA_PAGE_SIZE # 0

C20_Witness ==
    /\ res.op = "init_tlb"
    /\ res.before["tlb_code"][255] = StaleEntry
    /\ res.before["tlb_read"][0] = InvalidEntry
    /\ tlb["tlb_code"][255] = InvalidEntry

----------------------------------------------------------------------------
(* Properties of refused accesses and of the order of the accesses *)

\* the last call was an aligned 64-bit access at an offset that holds
\* neither tohost nor fromhost
OtherOffset ==
    /\ last.op \in {"htif_read", "htif_write"}
    /\ last.size_log2 = 3
    /\ last.offset % 8 = 0
    /\ last.offset \notin {HTIF_TOHOST_REL_ADDR, HTIF_FROMHOST_REL_ADDR}

\* C28: an aligned 64-bit HTIF read or write at an offset other than that
\* of tohost (0) and of fromhost (8) is refused (returns false) and changes
\* no state: tohost, fromhost, iflags.H and fromhost_pending keep their
\* values, nothing is read into the destination and no console byte is
\* emitted.
C28_OtherOffsetsRefused ==
    [][ OtherOffset' =>
          /\ ~last'.ret
          /\ ~last'.set
          /\ acc' = <<>>
          /\ tohost' = tohost
          /\ fromhost' = fromhost
          /\ iflags'.H = iflags.H
          /\ m_fromhost_pending' = m_fromhost_pending ]_vars

C28_Witness ==
    /\ last.op = "htif_read"
    /\ last.offset = 16
    /\ last.size_log2 = 3
    /\ ~last.ret
    /\ tohost = <<512, 0, 0, 1>>
    /\ fromhost = <<0, 0, 0, 5>>

\* C29: htif_peek with a page offset that is no multiple of the page size
\* or is not below the length of the HTIF range returns false with a null
\* page pointer, and touches neither the scratch buffer nor any state.
C29_PeekRefused ==
    [][ ( /\ PeekStep
          /\ \/ res'.page_offset % PMA_PAGE_SIZE # 0
             \/ res'.page_offset >= res'.length ) =>
          /\ ~res'.ret
          /\ res'.page_data = "nullptr"
          /\ res'.scratch = res'.before
          /\ St' = St ]_vars

C29_Witness ==
    /\ last.op = "htif_peek"
    /\ res.op = "htif_peek"
    /\ res.page_offset = PMA_PAGE_SIZE
    /\ res.length = PMA_PAGE_SIZE
    /\ ~res.ret
    /\ res.before[0] = <<65535, 65535, 65535, 65535>>
    /\ res.scratch[0] = <<65535, 65535, 65535, 65535>>

\* C30: every accepted write of v to tohost first records tohost := v and
\* only then handles the command, so the accesses to the state occur in
\* this order: putchar: tohost := v, tohost := 0, the byte emitted,
\* fromhost := (1<<56)|(1<<48); getchar: tohost := v, tohost := 0; halt:
\* tohost := v, iflags.H set; anything else: tohost := v only.
C30_AccessOrder ==
    (TohostWritten /\ last.ret) =>
        acc = CASE IsPutchar(last.val) ->
                     <<Access("tohost", last.val), Access("tohost", Zero64),
                       Access("stdout", U64(last.val[4] % 256)),
                       Access("fromhost", <<257, 0, 0, 0>>)>>
                [] IsGetchar(last.val) ->
                     <<Access("tohost", last.val), Access("tohost", Zero64)>>
                [] IsHalt(last.val) ->
                     <<Access("tohost", last.val), Access("iflags.H", U64(1))>>
                [] OTHER -> <<Access("tohost", last.val)>>

C30_Witness ==
    /\ TohostWritten
    /\ last.ret
    /\ last.val = <<257, 0, 0, 65>>
    /\ Len(acc) = 4
    /\ acc[3] = Access("stdout", U64(65))
    /\ acc[4].what = "fromhost"

----------------------------------------------------------------------------
(* Properties of the clock *)

\* floor((2^64 - 1) / 100), the largest time whose cycle count fits 64 bits
MaxTime == <<655, 23592, 62914, 36700>>

\* t = floor(c / 100): 100 * t <= c < 100 * t + 100, without wrapping
IsFloorDiv100(c, t) ==
    /\ Le64(t, MaxTime)
    /\ Le64(MulSmall64(t, 100), c)
    /\ \E r \in 0..99 : AddSmall64(MulSmall64(t, 100), r) = c

\* the last call was a read of mtime
MtimeRead == res.op = "read_clint_mtime"

\* C22: mtime is a function of mcycle alone: a read of mtime at cycle c
\* returns floor(c / 100), so that mtime does not decrease while mcycle does
\* not decrease, and is exactly 1 more 100 cycles later.
C22_MtimeIsFloor ==
    [][ MtimeRead' =>
          /\ IsFloorDiv100(res'.cycle, res'.time)
          /\ (MtimeRead /\ Le64(res.cycle, res'.cycle)) =>
                Le64(res.time, res'.time)
          /\ ( /\ MtimeRead
               /\ Lt64(res.cycle, res'.cycle)
               /\ res'.cycle = AddSmall64(res.cycle, 100) ) =>
                res'.time = AddSmall64(res.time, 1) ]_vars

C22_Witness ==
    /\ MtimeRead
    /\ res.cycle = <<65535, 65535, 65535, 65535>>
    /\ res.time = <<655, 23592, 62914, 36700>>

\* C23: with mtimecmp = T and 100 * T < 2^64, the timer is not pending at
\* any mcycle < 100 * T and is pending at every mcycle >= 100 * T:
\* rtc_time_to_cycle(T) is the first cycle at which it is pending (T = 10:
\* not pending at mcycle 999, pending at 1000).
C23_TimerPendingFrom ==
    (res.op = "timer" /\ Le64(res.timecmp, MaxTime)) =>
        /\ res.pending <=> Le64(rtc_time_to_cycle(res.timecmp), res.cycle)
        /\ (res.timecmp = U64(10) /\ res.cycle = U64(999)) => ~res.pending
        /\ (res.timecmp = U64(10) /\ res.cycle = U64(1000)) => res.pending

C23_Witness ==
    /\ res.op = "timer"
    /\ res.timecmp = U64(10)
    /\ res.cycle = U64(1000)
    /\ res.pending
    /\ mcycle = U64(1000)

----------------------------------------------------------------------------
(* Properties of the PMA map *)

\* entry e contains the whole of [paddr, paddr + length)
PmaContains(e, paddr, length) ==
    e.start <= paddr /\ paddr + length <= e.start + e.length

\* C27: after any sequence of registrations the registered ranges are
\* pairwise disjoint and ordered by start, and find_pma_entry(paddr, length)
\* returns the registered entry that contains the whole of
\* [paddr, paddr + length) if there is one, and the sentinel empty_pma
\* otherwise, also when the range straddles two entries.
C27_PmasDisjointSortedFound ==
    /\ \A i, j \in DOMAIN pmas :
          i < j => pmas[i].start + pmas[i].length <= pmas[j].start
    /\ res.op = "find_pma_entry" =>
          IF \E i \in DOMAIN pmas :
                 PmaContains(pmas[i], res.paddr, res.length)
          THEN /\ res.entry \in {pmas[i] : i \in DOMAIN pmas}
               /\ PmaContains(res.entry, res.paddr, res.length)
          ELSE res.entry = empty_pma

C27_Witness ==
    /\ res.op = "find_pma_entry"
    /\ Len(pmas) = 3
    /\ pmas[1] = pma_entry(0, 4096)
    /\ pmas[2] = pma_entry(4096, 8192)
    /\ res.paddr = 4092
    /\ res.length = 8
    /\ res.entry = empty_pma

----------------------------------------------------------------------------
(* Properties of the console's terminal *)

----------------------------------------------------------------------------
(* Properties of the Merkle tree *)

\* C24: for every address addr and every k from 3 up to the log2 of the
\* size of the address space with addr mod 2^k = 0, the proof returned by
\* get_proof(addr, k) verifies: its target hash is that of the node, and
\* folding it with the sibling hashes level by level up to the root yields
\* the returned root hash, which is what get_root_hash() returns.
C24_ProofVerifies ==
    res.op = "get_proof" =>
        LET p == res.proof
        IN /\ p.target_hash = MemHash(mem, p.address, p.log2_size)
           /\ FoldProof(p, p.target_hash, p.log2_size) = p.root_hash
           /\ p.root_hash = get_root_hash(tree)

C24_Witness ==
    /\ res.op = "get_proof"
    /\ res.proof.address = 40
    /\ res.proof.log2_size = 3
    /\ mem[40] = 1
    /\ mem[0] = 1
    /\ res.proof.target_hash = <<"word", 1>>
    /\ FoldProof(res.proof, res.proof.target_hash, 3) = get_root_hash(tree)

\* C25: after a write at address a the dirty bit of the page that contains
\* a is set; after update_merkle_tree every dirty bit is cleared and the
\* root hash is the hash recomputed from the memory (verify_merkle_tree and
\* verify_dirty_page_maps succeed).
C25_DirtyThenUpdated ==
    /\ res.op = "write" => page_of(res.address) \in dirty
    /\ res.op = "update_merkle_tree" =>
          /\ dirty = {}
          /\ get_root_hash(tree) = MemHash(mem, 0, LOG2_ROOT_SIZE)
          /\ verify_merkle_tree(mem, tree)
          /\ verify_dirty_page_maps(mem, tree, dirty)

C25_Witness ==
    /\ res.op = "update_merkle_tree"
    /\ mem[8] = 1
    /\ mem[40] = 1
    /\ dirty = {}
    /\ get_root_hash(tree) = MemHash(mem, 0, LOG2_ROOT_SIZE)

----------------------------------------------------------------------------
(* Properties of the break flag as set from mip and mie *)

\* x and y have a set bit in common, in any of the 64 positions
ShareBit(x, y) ==
    \E i \in 1 .. 4 : \E k \in 0 .. 15 :
        /\ (x[i] \div (2 ^ k)) % 2 = 1
        /\ (y[i] \div (2 ^ k)) % 2 = 1

\* C35: set_brk_from_mip_mie sets brk to true if and only if mip and mie
\* share a set bit in any of the 64 positions; nothing of the 64-bit value
\* is cut off before the test.
C35_BrkFromAllBits ==
    (last.op \in {"write_mip", "write_mie"}) => (brk <=> ShareBit(mip, mie))

\* mip and mie share bit 63 alone and brk is set
C35_Witness ==
    /\ last.op = "write_mie"
    /\ mip = <<32768, 0, 0, 0>>
    /\ mie = <<32768, 0, 0, 0>>
    /\ brk

----------------------------------------------------------------------------
(* Properties of the divisor counter *)

\* C38: on an interactive HTIF each interact() call advances
\* m_divisor_counter by one modulo HTIF_INTERACT_DIVISOR and invokes
\* poll_console exactly when the counter wraps to 0, no other call touches
\* the counter, and it stays in [0, HTIF_INTERACT_DIVISOR): counting
\* interact() calls alone, every HTIF_INTERACT_DIVISOR-th one polls.  On a
\* non-interactive HTIF interact() never polls and the counter stays 0.
C38_DivisorCounter ==
    [][ /\ (last'.op = "interact" /\ m_interactive) =>
              /\ m_divisor_counter' =
                     (m_divisor_counter + 1) % HTIF_INTERACT_DIVISOR
              /\ m_divisor_counter' \in 0 .. (HTIF_INTERACT_DIVISOR - 1)
              /\ PollInvoked' <=> (m_divisor_counter' = 0)
        /\ (last'.op = "interact" /\ ~m_interactive) =>
              /\ ~PollInvoked'
              /\ m_divisor_counter' = 0
        /\ (last'.op # "interact") =>
              m_divisor_counter' = m_divisor_counter ]_vars

\* an interact() call of an interactive HTIF wrapped the counter and polled
C38_Witness ==
    /\ last.op = "interact"
    /\ m_interactive
    /\ m_divisor_counter = 0
    /\ PollInvoked

----------------------------------------------------------------------------
(* Properties of the guest's stores to fromhost *)

\* C31: an aligned 64-bit store of v to fromhost returns true.  On a
\* non-interactive HTIF it leaves fromhost = v and fromhost_pending as it
\* was.  On an interactive HTIF it polls the console at once with
\* fromhost_pending cleared: if an input byte b is available (left in the
\* buffer, or obtained from stdin by this poll) the store ends with
\* fromhost = (1<<56)|b and fromhost_pending set, and otherwise with
\* fromhost = v and fromhost_pending clear.
C31_FromhostStore ==
    [][ FromhostWritten' =>
          /\ last'.ret
          /\ ~m_interactive =>
                /\ fromhost' = last'.val
                /\ m_fromhost_pending' = m_fromhost_pending
                /\ ~PollInvoked'
          /\ m_interactive =>
                /\ PollInvoked'
                /\ IF m_buf_pos < m_buf_len
                   THEN /\ fromhost' = <<256, 0, 0, m_buf[m_buf_pos]>>
                        /\ m_fromhost_pending'
                   ELSE IF StdinRead'
                   THEN /\ fromhost' = <<256, 0, 0, m_buf'[0]>>
                        /\ m_fromhost_pending'
                   ELSE /\ fromhost' = last'.val
                        /\ ~m_fromhost_pending' ]_vars

\* a store to fromhost of an interactive HTIF ended with the second byte
\* of the buffer delivered
C31_Witness ==
    /\ FromhostWritten
    /\ m_interactive
    /\ DeliveredByPoll
    /\ ~StdinRead
    /\ m_buf_pos = 2
    /\ fromhost = <<256, 0, 0, 255>>
    /\ m_fromhost_pending

----------------------------------------------------------------------------
(* Properties of the end of the console input *)

\* the last call read stdin and the read gave no data
EmptyRead == \E i \in DOMAIN acc : acc[i] = Access("stdin", Zero64)

\* C32: when poll_console finds stdin readable and the read returns no
\* data, the buffer becomes the single byte 4 (CTRL+D) and that byte is
\* delivered: fromhost = (1<<56)|4 with fromhost_pending set; no read
\* leaves the buffer length zero or negative.
C32_EndOfInput ==
    /\ EmptyRead =>
          /\ m_buf_len = 1
          /\ m_buf[0] = 4
          /\ m_buf_pos = 1
          /\ fromhost = <<256, 0, 0, 4>>
          /\ m_fromhost_pending
    /\ StdinRead => m_buf_len >= 1

\* an interact() call met the end of the input
C32_Witness ==
    /\ last.op = "interact"
    /\ EmptyRead
    /\ fromhost = <<256, 0, 0, 4>>

----------------------------------------------------------------------------
(* Properties of the console input as a queue *)

RECURSIVE Flatten(_)
Flatten(q) == IF q = <<>> THEN <<>> ELSE Head(q) \o Flatten(Tail(q))

\* the bytes read from stdin, with CTRL+D for each read that gave none
RECURSIVE FlattenEof(_)
FlattenEof(q) ==
    IF q = <<>> THEN <<>>
    ELSE (IF Head(q) = <<>> THEN <<4>> ELSE Head(q)) \o FlattenEof(Tail(q))

\* the bytes of the input buffer not yet delivered
BufRest == [i \in 1 .. (m_buf_len - m_buf_pos) |-> m_buf[m_buf_pos + i - 1]]

\* C33 (as stated): the bytes the polls have put in fromhost, followed by
\* those still in the buffer, are the bytes read from stdin, in order, and
\* 0 <= m_buf_pos <= m_buf_len.
C33_DeliveredIsStdin ==
    /\ 0 <= m_buf_pos /\ m_buf_pos <= m_buf_len
    /\ delivered \o BufRest = Flatten(reads)

\* C33 (amended): the bytes the polls have put in fromhost, followed by
\* those still in the buffer, are the bytes read from stdin with one byte 4
\* (CTRL+D) in place of each read that gave no data, in order;
\* 0 <= m_buf_pos <= m_buf_len; and stdin is read only by a call that found
\* the buffer exhausted.
C33_FifoLossless ==
    [][ /\ 0 <= m_buf_pos' /\ m_buf_pos' <= m_buf_len'
        /\ delivered' \o BufRest' = FlattenEof(reads')
        /\ StdinRead' => m_buf_pos >= m_buf_len ]_vars

\* two reads have been made, the first gave two bytes and the second was
\* made after both were delivered; its second byte is still in the buffer
C33_Witness ==
    /\ reads = << <<255, 0>>, <<0, 255>> >>
    /\ delivered = <<255, 0, 0>>
    /\ m_buf_pos = 1
    /\ m_buf_len = 2

----------------------------------------------------------------------------
(* Properties of the console output *)

\* the write() of the last call failed
StdoutFailed == \E i \in DOMAIN acc : acc[i].what = "stdout failed"

\* C34: whether the write of the byte to stdout succeeds or fails, a
\* putchar command returns true and ends with tohost = 0 and
\* fromhost = (1<<56)|(1<<48), and with every other field of the machine
\* and of the device as it was: the state after the command does not depend
\* on the host.
C34_PutcharIgnoresHost ==
    [][ (TohostWritten' /\ IsPutchar(last'.val)) =>
          /\ last'.ret
          /\ tohost' = Zero64
          /\ fromhost' = <<257, 0, 0, 0>>
          /\ UNCHANGED <<iflags, mip, mie, brk, m_interactive,
                         m_fromhost_pending, m_buf, m_buf_pos, m_buf_len,
                         m_divisor_counter>> ]_vars

\* a putchar whose write to stdout failed has been acknowledged
C34_Witness ==
    /\ TohostWritten
    /\ IsPutchar(last.val)
    /\ StdoutFailed
    /\ last.ret
    /\ tohost = Zero64
    /\ fromhost = <<257, 0, 0, 0>>

----------------------------------------------------------------------------
(* Properties of the packing of iflags *)

\* the bit positions of the PRV, I and H fields
IflagsBits ==
    {IFLAGS_H_SHIFT, IFLAGS_I_SHIFT, IFLAGS_PRV_SHIFT, IFLAGS_PRV_SHIFT + 1}

\* w is v with every bit outside the three fields cleared
RestrictedToFields(w, v) ==
    \A k \in 0 .. 63 : Bit(w, k) = IF k \in IflagsBits THEN Bit(v, k) ELSE 0

\* C36: read_iflags() after write_iflags(v) is v restricted to the PRV, I
\* and H fields; writing back what read_iflags() gives leaves the three
\* fields as they are; and write_iflags changes nothing but the three
\* fields (brk in particular keeps its value).
C36_IflagsRoundTrip ==
    [][ /\ (last'.op = "write_iflags") =>
              /\ RestrictedToFields(read_iflags(St)', last'.val)
              /\ UNCHANGED <<tohost, fromhost, mip, mie, brk, m_interactive,
                             m_fromhost_pending, m_buf, m_buf_pos, m_buf_len,
                             m_divisor_counter>>
        /\ (last'.op = "read_iflags") =>
              /\ last'.pval = read_iflags(St)
              /\ write_iflags(St, last'.pval).iflags = iflags
              /\ iflags' = iflags ]_vars

\* write_iflags of the word of all ones, which reads back as 15, was made
\* while brk was clear
C36_Witness ==
    /\ last.op = "write_iflags"
    /\ last.val = <<65535, 65535, 65535, 65535>>
    /\ read_iflags(St) = <<0, 0, 0, 15>>
    /\ iflags = [PRV |-> 3, I |-> TRUE, H |-> TRUE]
    /\ ~brk

----------------------------------------------------------------------------
(* Properties of the two conversions of the clock taken together *)

\* 100 * t as a number of five 16-bit limbs, most significant first
Times100Wide(t) ==
    LET l4 == t[4] * 100
        l3 == t[3] * 100 + l4 \div 65536
        l2 == t[2] * 100 + l3 \div 65536
        l1 == t[1] * 100 + l2 \div 65536
    IN <<l1 \div 65536, l1 % 65536, l2 % 65536, l3 % 65536, l4 % 65536>>

\* C37: rtc_cycle_to_time(rtc_time_to_cycle(t)) = t for every t with
\* 100 * t < 2^64; rtc_time_to_cycle(rtc_cycle_to_time(c)) <= c <
\* rtc_time_to_cycle(rtc_cycle_to_time(c)) + 100 for every c; and for a
\* larger t rtc_time_to_cycle(t) is 100 * t reduced modulo 2^64, which is
\* below the true deadline 100 * t >= 2^64.
C37_ConversionsInverse ==
    /\ (res.op = "rtc_time_to_cycle") =>
          LET w == Times100Wide(res.time)
          IN /\ res.cycle = <<w[2], w[3], w[4], w[5]>>
             /\ Le64(res.time, MaxTime) <=> (w[1] = 0)
             /\ Le64(res.time, MaxTime) =>
                    rtc_cycle_to_time(res.cycle) = res.time
    /\ (res.op = "read_clint_mtime") =>
          LET x == rtc_time_to_cycle(res.time)
          IN /\ Le64(x, res.cycle)
             /\ \E r \in 0 .. 99 : AddSmall64(x, r) = res.cycle

\* the first time count whose cycle count does not fit has been converted:
\* 100 * (MaxTime + 1) = 2^64 + 84 gives 84
C37_Witness ==
    /\ res.op = "rtc_time_to_cycle"
    /\ res.time = <<655, 23592, 62914, 36701>>
    /\ res.cycle = <<0, 0, 0, 84>>

====
